---- MODULE Spec2Model ----
(***************************************************************************)
(* Model of tmdbone: the request-execution loop of TMDbOneClient           *)
(* (_api_request: key rotation, rate-limit backoff, bounded network        *)
(* retry), run by several coroutines on one client, and the parameter      *)
(* pipeline (_Resource._get, _sanitize_params), and the aiohttp session    *)
(* the client holds (_get_session, close).                                 *)
(*                                                                         *)
(* A coroutine runs atomically between two suspensions.  _api_request      *)
(* suspends in the HTTP exchange (session.request, reading the body) and   *)
(* in asyncio.sleep.  Leaving the "async with" block releases the response *)
(* without suspending: a GET has no request body left to write.            *)
(***************************************************************************)
EXTENDS Integers, Sequences, FiniteSets, TLC

\* ------------------------------------------------------------------ bounds
MaxKeys == 2
MaxReqs == 2
MaxRetries == 2
MaxItems == 2
MaxLoops == 2

\* ------------------------------------------------------- program constants
max_rate_limit_retries == 5
retry_delay == 5
default_cooldown == 10

\* Python's None, and a present value, for data that may be absent
None == <<>>
Some(x) == <<x>>
ValueOf(o) == o[1]

Reqs == 1..MaxReqs
Loops == 1..MaxLoops

VARIABLES
    api_keys,             \* the api_keys argument of the constructor
    ctor,                 \* outcome of TMDbOneClient.__init__: "ok" | "ValueError"
    retries,              \* self.retries
    active_api_keys,      \* self.active_api_keys (a set)
    api_key_rotator,      \* self.api_key_rotator: [items, pos] of itertools.cycle
    pc,                   \* per request: "idle", "http", "sleep429", "sleepnet", "done"
    network_attempts,     \* local of _api_request
    rate_limit_attempts,  \* local of _api_request
    current_api_key,      \* local of _api_request
    last_exception,       \* local of _api_request
    response,             \* outcome of the HTTP exchange of the current iteration
    sleep_arg,            \* argument of the asyncio.sleep in progress, or None
    result,               \* what the call returned or raised
    attempts,             \* history: HTTP attempts sent by the request
    n429,                 \* history: 429 responses received by the request
    nfail,                \* history: attempts ended by network error / timeout / 5xx
    nsleep,               \* history: asyncio.sleep calls made by the request
    revoked,              \* history: keys for which some attempt received a 401
    recent,               \* history: key selections since the active set last changed
    phase,                \* parameter pipeline: "call", "get", "sent", "clean", "again"
    kwargs,               \* the keyword arguments of the call
    params,               \* the dict handed to _api_request
    request_params,       \* the parameters of the request sent
    clean,                \* result of _sanitize_params(kwargs)
    again,                \* result of _sanitize_params(clean)
    session,              \* self.session: None or the session object
    _external_session,    \* self._external_session
    dropped_sessions,     \* sessions self.session no longer refers to, by their state
    current_loop,         \* asyncio.get_running_loop()
    loop_attr,            \* whether a ClientSession has the attribute `loop`
    close_returned        \* history: close() has returned and no session was made since

vars == <<api_keys, ctor, retries, active_api_keys, api_key_rotator, pc,
          network_attempts, rate_limit_attempts, current_api_key, last_exception,
          response, sleep_arg, result, attempts, n429, nfail, nsleep,
          revoked, recent, phase, kwargs, params, request_params, clean, again,
          session, _external_session, dropped_sessions, current_loop, loop_attr,
          close_returned>>

paramVars == <<phase, kwargs, params, request_params, clean, again>>

clientVars == <<api_keys, ctor, retries, paramVars, _external_session,
                current_loop, loop_attr>>

sessionVars == <<session, dropped_sessions, close_returned>>

requestVars == <<active_api_keys, api_key_rotator, pc, network_attempts,
                 rate_limit_attempts, current_api_key, last_exception, response,
                 sleep_arg, result, attempts, n429, nfail, nsleep, revoked, recent>>

loopVars == <<api_keys, ctor, retries, active_api_keys, api_key_rotator, pc,
              network_attempts, rate_limit_attempts, current_api_key,
              last_exception, response, sleep_arg, result, attempts, n429,
              nfail, nsleep, revoked, recent, session, _external_session,
              dropped_sessions, current_loop, loop_attr, close_returned>>

\* ------------------------------------------------------------ sequences
Range(s) == {s[i] : i \in DOMAIN s}

\* list(a_set): the members in the iteration order of the set object.  The
\* keys are opaque strings; the model names them 1..n by their place in that
\* order, which discard() does not change.
RECURSIVE ListOfSet(_)
ListOfSet(S) ==
    IF S = {} THEN <<>>
    ELSE LET m == CHOOSE x \in S : \A y \in S : x <= y
         IN  <<m>> \o ListOfSet(S \ {m})

\* itertools.cycle(items)
cycle(items) == [items |-> items, pos |-> 1]

\* next(rotator): the element under the cursor
RotatorPeek(rot) == rot.items[rot.pos]

\* next(rotator): the rotator afterwards
RotatorAdvance(rot) == [rot EXCEPT !.pos = (rot.pos % Len(rot.items)) + 1]

\* ------------------------------------------------------------ responses
NoBody == "no_body"

NoResponse == [kind |-> "none", status |-> None, body |-> NoBody, retry_after |-> None]

\* a response with a status line; retry_after is headers.get("Retry-After")
Resp(status, body, h) ==
    [kind |-> "response", status |-> Some(status), body |-> body, retry_after |-> h]

\* session.request raised before any status was seen
Raised(exc) == [kind |-> exc, status |-> None, body |-> NoBody, retry_after |-> None]

\* bodies of a 200 response: two JSON documents, a body that is not JSON,
\* and a body whose read fails with a ClientError / timeout
JsonBodies == {"json_a", "json_b"}
Bodies == JsonBodies \cup {"not_json", "read_error"}

\* Retry-After header values: absent, a date, a number
RetryAfterValues == {None, Some(<<"W", "e", "d">>), Some(<<"7">>)}

Digit(c) ==
    CASE c = "0" -> 0 [] c = "1" -> 1 [] c = "2" -> 2 [] c = "3" -> 3
      [] c = "4" -> 4 [] c = "5" -> 5 [] c = "6" -> 6 [] c = "7" -> 7
      [] c = "8" -> 8 [] c = "9" -> 9 [] OTHER -> -1

RECURSIVE DigitsValue(_)
DigitsValue(s) ==
    IF s = <<>> THEN 0
    ELSE 10 * DigitsValue(SubSeq(s, 1, Len(s) - 1)) + Digit(s[Len(s)])

\* float(text) on the header texts of the model: the number when the text is
\* a non-empty run of decimal digits, None for ValueError
float(s) ==
    IF Len(s) > 0 /\ \A i \in DOMAIN s : Digit(s[i]) >= 0
    THEN Some(DigitsValue(s)) ELSE None

OtherStatuses == {403}
ServerErrorStatuses == {500}

Outcomes ==
    {Resp(200, b, None) : b \in Bodies}
    \cup {Resp(s, NoBody, None) : s \in {404, 401} \cup OtherStatuses \cup ServerErrorStatuses}
    \cup {Resp(429, NoBody, h) : h \in RetryAfterValues}
    \cup {Raised("TimeoutError")}

\* ------------------------------------------------------------ results
Pending == [kind |-> "pending", value |-> None, msg |-> "", n |-> None,
            status_code |-> None, cause |-> None]

\* return v  (v is None or Some(parsed body))
Return(v) == [kind |-> "return", value |-> v, msg |-> "", n |-> None,
              status_code |-> None, cause |-> None]

\* raise TMDbAPIError(msg, status_code=...) [from cause]; n is the number the
\* message quotes, if any
Raise(msg, n, status_code, cause) ==
    [kind |-> "raise", value |-> None, msg |-> msg, n |-> n,
     status_code |-> status_code, cause |-> cause]

MsgExhausted == "All API keys have been invalidated or exhausted."
MsgFailedAfter == "Request failed after n retries."
MsgUnexpected == "Request failed unexpectedly."
MsgRateLimit == "Max rate limit retries exceeded."
MsgNonJson == "API returned non-JSON response."
MsgApiError == "API Error"
MsgLoop == "External session is bound to a different event loop."

\* ------------------------------------------------------ Python values
\* A value is [t, s, items]: its type, its text (for str, int, bool) and
\* its members (for list, tuple).
PyNone == [t |-> "NoneType", s |-> "", items |-> <<>>]
PyStr(text) == [t |-> "str", s |-> text, items |-> <<>>]
PyInt(n) == [t |-> "int", s |-> ToString(n), items |-> <<>>]
PyBool(b) == [t |-> "bool", s |-> IF b THEN "True" ELSE "False", items |-> <<>>]
PyList(xs) == [t |-> "list", s |-> "", items |-> xs]
PyTuple(xs) == [t |-> "tuple", s |-> "", items |-> xs]

\* a dict is a function from its keys
EmptyDict == [k \in {} |-> PyNone]
DictSet(d, k, v) == [x \in DOMAIN d \cup {k} |-> IF x = k THEN v ELSE d[x]]
DictPop(d, k) == [x \in DOMAIN d \ {k} |-> d[x]]

\* sep.join(texts)
RECURSIVE Join(_, _)
Join(sep, texts) ==
    IF Len(texts) = 0 THEN ""
    ELSE IF Len(texts) = 1 THEN texts[1]
    ELSE texts[1] \o sep \o Join(sep, Tail(texts))

\* str(x) and repr(x); a str is quoted by repr, a tuple of one member ends
\* in a comma
RECURSIVE str(_)
RECURSIVE repr(_)
str(x) ==
    CASE x.t = "NoneType" -> "None"
      [] x.t = "list" ->
            "[" \o Join(", ", [i \in DOMAIN x.items |-> repr(x.items[i])]) \o "]"
      [] x.t = "tuple" ->
            "(" \o Join(", ", [i \in DOMAIN x.items |-> repr(x.items[i])])
                \o (IF Len(x.items) = 1 THEN "," ELSE "") \o ")"
      [] OTHER -> x.s

repr(x) == IF x.t = "str" THEN "'" \o x.s \o "'" ELSE str(x)

\* text.lower() for the texts of str(bool)
lower(text) ==
    CASE text = "True" -> "true"
      [] text = "False" -> "false"
      [] OTHER -> text

\* truth value of x in `if x` / `x if x else y`
Truthy(x) ==
    CASE x.t = "NoneType" -> FALSE
      [] x.t = "bool" -> x.s = "True"
      [] x.t = "int" -> x.s # "0"
      [] x.t = "str" -> x.s # ""
      [] OTHER -> Len(x.items) > 0

\* ------------------------------------------------- TMDbOneClient.__init__
\* The client built from n distinct keys with retries = N:
\* `if not api_keys: raise ValueError`, else the attributes are set.
InitKeys(n, N) ==
    /\ api_keys = [i \in 1..n |-> i]
    /\ ctor = IF n = 0 THEN "ValueError" ELSE "ok"
    /\ retries = N
    /\ active_api_keys = 1..n
    /\ api_key_rotator = cycle(ListOfSet(1..n))
    /\ pc = [r \in Reqs |-> "idle"]
    /\ network_attempts = [r \in Reqs |-> 0]
    /\ rate_limit_attempts = [r \in Reqs |-> 0]
    /\ current_api_key = [r \in Reqs |-> None]
    /\ last_exception = [r \in Reqs |-> None]
    /\ response = [r \in Reqs |-> NoResponse]
    /\ sleep_arg = [r \in Reqs |-> None]
    /\ result = [r \in Reqs |-> Pending]
    /\ attempts = [r \in Reqs |-> 0]
    /\ n429 = [r \in Reqs |-> 0]
    /\ nfail = [r \in Reqs |-> 0]
    /\ nsleep = [r \in Reqs |-> 0]
    /\ revoked = {}
    /\ recent = <<>>

\* an aiohttp.ClientSession: who made it, the loop it is bound to, and who
\* closed it ("none" while it is open)
Session(owner, loop, closer) == [owner |-> owner, loop |-> loop, closer |-> closer]

\* `self._external_session = session is not None; self.session = session`,
\* in the loop the program starts in
InitSession(supplied, attr) ==
    /\ session = supplied
    /\ _external_session = (supplied # None)
    /\ dropped_sessions = {}
    /\ current_loop = 1
    /\ loop_attr = attr
    /\ close_returned = FALSE

\* the client built without the session argument
InitLoop(n, N) == InitKeys(n, N) /\ InitSession(None, TRUE)

\* no call is followed through the parameter pipeline
InitClient(n, N) ==
    /\ InitLoop(n, N)
    /\ phase = "call"
    /\ kwargs = EmptyDict
    /\ params = EmptyDict
    /\ request_params = EmptyDict
    /\ clean = EmptyDict
    /\ again = EmptyDict

\* Up to MaxKeys keys with every retries value up to MaxRetries (-1 stands
\* for the negative values), and one key more with retries = 0.
Init ==
    \/ \E n \in 0..MaxKeys : \E N \in -1..MaxRetries : InitClient(n, N)
    \/ InitClient(MaxKeys + 1, 0)

\* ------------------------------------------------- pieces of _api_request
\* the exhaustion test left out
KeysExhausted_Never(keys) == FALSE

\* `if not self.active_api_keys`
KeysExhausted(keys) == keys = {}

\* `if network_attempts > self.retries: break`
AttemptsSpent(na, N) == na > N

\* a retry test that is off by one
MayRetryNetwork_Strict(na, N) == na < N

\* `if network_attempts <= self.retries` after the increment
MayRetryNetwork(na, N) == na <= N

\* a constant delay
NetworkBackoff_Flat(na) == retry_delay

\* `self.retry_delay * network_attempts`
NetworkBackoff(na) == retry_delay * na

\* a limit test that is off by one
RateLimitSpent_Late(rla) == rla > max_rate_limit_retries

\* `if rate_limit_attempts >= max_rate_limit_retries`
RateLimitSpent(rla) == rla >= max_rate_limit_retries

\* sleep_time of the 429 branch: default_cooldown unless Retry-After is a
\* non-empty text that float() accepts
RateLimitSleep(h) ==
    IF h # None /\ Len(ValueOf(h)) > 0 /\ float(ValueOf(h)) # None
    THEN ValueOf(float(ValueOf(h)))
    ELSE default_cooldown

\* `500 <= response.status < 600`
IsServerError(status) == 500 <= status /\ status < 600

\* the key left in the set
Discard_Keep(keys, k) == keys

\* `self.active_api_keys.discard(current_api_key)`
Discard(keys, k) == keys \ {k}

\* the rotator left as it was after a key is dropped
RebuildRotator_Stale(keys, rot) == rot

\* `if self.active_api_keys: self.api_key_rotator = cycle(list(...))`
RebuildRotator(keys, rot) ==
    IF keys # {} THEN cycle(ListOfSet(keys)) ELSE rot

\* the code after the loop
AfterLoop(exc, na) ==
    IF exc # None THEN Raise(MsgFailedAfter, Some(na), None, exc)
    ELSE Raise(MsgUnexpected, None, None, None)

\* the last selections, at most as many as there are active keys
Window(s, width) ==
    IF Len(s) <= width THEN s ELSE SubSeq(s, Len(s) - width + 1, Len(s))

Set(f, r, v) == [f EXCEPT ![r] = v]

\* The frame of a call: the locals of _api_request and the history counters.
\* They are modelled while the call runs, and while they are live.
NewFrame ==
    [network_attempts |-> 0, rate_limit_attempts |-> 0, current_api_key |-> None,
     last_exception |-> None, sleep_arg |-> None,
     attempts |-> 0, n429 |-> 0, nfail |-> 0, nsleep |-> 0]

Frame(r) ==
    [network_attempts |-> network_attempts[r],
     rate_limit_attempts |-> rate_limit_attempts[r],
     current_api_key |-> current_api_key[r],
     last_exception |-> last_exception[r], sleep_arg |-> sleep_arg[r],
     attempts |-> attempts[r], n429 |-> n429[r], nfail |-> nfail[r],
     nsleep |-> nsleep[r]]

SetFrame(r, f) ==
    /\ network_attempts' = Set(network_attempts, r, f.network_attempts)
    /\ rate_limit_attempts' = Set(rate_limit_attempts, r, f.rate_limit_attempts)
    /\ current_api_key' = Set(current_api_key, r, f.current_api_key)
    /\ last_exception' = Set(last_exception, r, f.last_exception)
    /\ sleep_arg' = Set(sleep_arg, r, f.sleep_arg)
    /\ attempts' = Set(attempts, r, f.attempts)
    /\ n429' = Set(n429, r, f.n429)
    /\ nfail' = Set(nfail, r, f.nfail)
    /\ nsleep' = Set(nsleep, r, f.nsleep)

\* the coroutine suspends at its next await, at place p, with frame f
Goto(r, p, f) ==
    /\ pc' = Set(pc, r, p)
    /\ SetFrame(r, f)
    /\ UNCHANGED result

\* the call returns or raises: its frame is gone
Finish(r, res) ==
    /\ pc' = Set(pc, r, "done")
    /\ result' = Set(result, r, res)
    /\ SetFrame(r, NewFrame)

\* ------------------------------------------------------- _get_session
\* `self.session and not self.session.closed`
SessionOpen(sess) == sess # None /\ ValueOf(sess).closer = "none"

\* is_same_loop: `self.session.loop is not current_loop` clears it, an
\* AttributeError leaves it True
IsSameLoop(sess, loop, attr) == ~attr \/ ValueOf(sess).loop = loop

\* `return self.session`
GetSessionKeeps(sess, loop, attr) ==
    SessionOpen(sess) /\ IsSameLoop(sess, loop, attr)

\* `raise TMDbAPIError("External session is bound to a different event loop.")`
GetSessionRaises(sess, ext, loop, attr) ==
    SessionOpen(sess) /\ ~IsSameLoop(sess, loop, attr) /\ ext

\* TMDbOneClient._get_session, called in a coroutine (a loop is running):
\* the session in use is returned, or the error is raised, or a new
\* session replaces self.session, which is neither closed nor kept
_get_session ==
    IF \/ GetSessionKeeps(session, current_loop, loop_attr)
       \/ GetSessionRaises(session, _external_session, current_loop, loop_attr)
    THEN UNCHANGED sessionVars
    ELSE /\ session' = Some(Session("client", current_loop, "none"))
         /\ dropped_sessions' =
               dropped_sessions \cup (IF session = None THEN {} ELSE {ValueOf(session)})
         /\ close_returned' = FALSE

\* One pass from the top of `while True` to the await of session.request,
\* entered with frame f, active keys `keys`, rotator `rot` and selection
\* history `rec`; resp is the response that led here, if any.
LoopTop(r, f, keys, rot, rec, resp) ==
    /\ active_api_keys' = keys
    /\ IF KeysExhausted(keys)
       THEN /\ Finish(r, Raise(MsgExhausted, None, None, None))
            /\ api_key_rotator' = rot
            /\ recent' = rec
            /\ response' = Set(response, r, resp)
            /\ UNCHANGED sessionVars
       ELSE IF AttemptsSpent(f.network_attempts, retries)
       THEN /\ Finish(r, AfterLoop(f.last_exception, f.network_attempts))
            /\ api_key_rotator' = rot
            /\ recent' = rec
            /\ response' = Set(response, r, resp)
            /\ UNCHANGED sessionVars
       ELSE /\ _get_session
            /\ IF GetSessionRaises(session, _external_session, current_loop, loop_attr)
               THEN /\ Finish(r, Raise(MsgLoop, None, None, None))
                    /\ response' = Set(response, r, resp)
               ELSE /\ response' = Set(response, r, NoResponse)
                    /\ Goto(r, "http",
                            [f EXCEPT !.current_api_key = Some(RotatorPeek(rot)),
                                      !.sleep_arg = None,
                                      !.attempts = @ + 1])
            /\ api_key_rotator' = RotatorAdvance(rot)
            /\ recent' = Window(Append(rec, RotatorPeek(rot)), Cardinality(keys))

\* A call of _api_request, up to its first suspension.  The calls are
\* numbered in the order in which they are made.
Start(r) ==
    /\ ctor = "ok"
    /\ pc[r] = "idle"
    /\ \A q \in Reqs : q < r => pc[q] # "idle"
    /\ LoopTop(r, NewFrame, active_api_keys, api_key_rotator, recent, NoResponse)
    /\ UNCHANGED <<clientVars, revoked>>

\* `except (aiohttp.ClientError, asyncio.TimeoutError) as e`
NetworkFailure(r, exc) ==
    /\ IF MayRetryNetwork(network_attempts[r] + 1, retries)
       THEN Goto(r, "sleepnet",
                 [Frame(r) EXCEPT !.last_exception = Some(exc),
                                  !.network_attempts = @ + 1,
                                  !.current_api_key = None,
                                  !.sleep_arg = Some(NetworkBackoff(network_attempts[r] + 1)),
                                  !.nfail = @ + 1,
                                  !.nsleep = @ + 1])
       ELSE Finish(r, AfterLoop(Some(exc), network_attempts[r] + 1))
    /\ UNCHANGED <<active_api_keys, api_key_rotator, revoked, recent, sessionVars>>

\* status 200: `return await response.json()`, or the non-JSON error; a body
\* whose read times out is a network failure
Handle200(r, body) ==
    IF body = "read_error"
    THEN NetworkFailure(r, "TimeoutError")
    ELSE /\ Finish(r, IF body \in JsonBodies THEN Return(Some(body))
                      ELSE Raise(MsgNonJson, None, Some(200), None))
         /\ UNCHANGED <<active_api_keys, api_key_rotator, revoked, recent, sessionVars>>

\* 404 treated like any other error status
Handle404_AsError(r) ==
    /\ Finish(r, Raise(MsgApiError, None, Some(404), None))
    /\ UNCHANGED <<active_api_keys, api_key_rotator, revoked, recent, sessionVars>>

\* status 404: `return None`
Handle404(r) ==
    /\ Finish(r, Return(None))
    /\ UNCHANGED <<active_api_keys, api_key_rotator, revoked, recent, sessionVars>>

\* a 401 that starts the request's budgets afresh
Handle401_Reset(r, o) ==
    LET k == ValueOf(current_api_key[r])
        keys == Discard(active_api_keys, k)
    IN  /\ revoked' = revoked \cup {k}
        /\ LoopTop(r, [Frame(r) EXCEPT !.current_api_key = None,
                                       !.network_attempts = 0,
                                       !.rate_limit_attempts = 0],
                   keys,
                   RebuildRotator(keys, api_key_rotator),
                   IF keys = active_api_keys THEN recent ELSE <<>>,
                   o)

\* status 401: drop the key, rebuild the rotator, continue
Handle401(r, o) ==
    LET k == ValueOf(current_api_key[r])
        keys == Discard(active_api_keys, k)
    IN  /\ revoked' = revoked \cup {k}
        /\ LoopTop(r, [Frame(r) EXCEPT !.current_api_key = None],
                   keys,
                   RebuildRotator(keys, api_key_rotator),
                   IF keys = active_api_keys THEN recent ELSE <<>>,
                   o)

\* status 429: give up, or sleep
Handle429(r, h) ==
    /\ IF RateLimitSpent(rate_limit_attempts[r])
       THEN Finish(r, Raise(MsgRateLimit, None, Some(429), None))
       ELSE Goto(r, "sleep429",
                 [Frame(r) EXCEPT !.sleep_arg = Some(RateLimitSleep(h)),
                                  !.current_api_key = None,
                                  !.n429 = @ + 1,
                                  !.nsleep = @ + 1])
    /\ UNCHANGED <<active_api_keys, api_key_rotator, revoked, recent, sessionVars>>

\* any other status: 5xx is re-raised as a ClientResponseError, the rest
\* raise TMDbAPIError with the status
HandleOther(r, status) ==
    IF IsServerError(status)
    THEN NetworkFailure(r, "ClientResponseError")
    ELSE /\ Finish(r, Raise(MsgApiError, None, Some(status), None))
         /\ UNCHANGED <<active_api_keys, api_key_rotator, revoked, recent, sessionVars>>

\* The HTTP exchange of request r ends with outcome o; the coroutine runs to
\* its next suspension, its return or its raise.
Respond(r, o) ==
    /\ pc[r] = "http"
    /\ IF o.kind = "response" /\ ValueOf(o.status) = 401
       THEN Handle401(r, o)
       ELSE /\ response' = Set(response, r, o)
            /\ IF o.kind # "response" THEN NetworkFailure(r, o.kind)
               ELSE IF ValueOf(o.status) = 200 THEN Handle200(r, o.body)
               ELSE IF ValueOf(o.status) = 404 THEN Handle404(r)
               ELSE IF ValueOf(o.status) = 429 THEN Handle429(r, o.retry_after)
               ELSE HandleOther(r, ValueOf(o.status))
    /\ UNCHANGED clientVars

\* The sleep of the 429 branch ends: `rate_limit_attempts += 1; continue`.
Wake429(r) ==
    /\ pc[r] = "sleep429"
    /\ LoopTop(r, [Frame(r) EXCEPT !.rate_limit_attempts = @ + 1],
               active_api_keys, api_key_rotator, recent, NoResponse)
    /\ UNCHANGED <<clientVars, revoked>>

\* The sleep of the except branch ends: `continue`.
WakeNet(r) ==
    /\ pc[r] = "sleepnet"
    /\ LoopTop(r, Frame(r), active_api_keys, api_key_rotator, recent, NoResponse)
    /\ UNCHANGED <<clientVars, revoked>>

\* TMDbOneClient.close: `if not self._external_session and self.session and
\* not self.session.closed: await self.session.close()`
close ==
    /\ ctor = "ok"
    /\ session' = IF ~_external_session /\ SessionOpen(session)
                  THEN Some([ValueOf(session) EXCEPT !.closer = "client"])
                  ELSE session
    /\ close_returned' = TRUE
    /\ UNCHANGED <<clientVars, requestVars, dropped_sessions>>

\* the caller closes the session it supplied
ExternalClose ==
    /\ ctor = "ok"
    /\ SessionOpen(session) /\ ValueOf(session).owner = "caller"
    /\ session' = Some([ValueOf(session) EXCEPT !.closer = "caller"])
    /\ UNCHANGED <<clientVars, requestVars, dropped_sessions, close_returned>>

\* the program goes on in another event loop (a further asyncio.run); no
\* coroutine of the old loop is left running
LoopChange ==
    /\ ctor = "ok"
    /\ \A r \in Reqs : pc[r] \in {"idle", "done"}
    /\ \E l \in Loops \ {current_loop} : current_loop' = l
    /\ UNCHANGED <<api_keys, ctor, retries, paramVars, _external_session,
                   loop_attr, requestVars, sessionVars>>

\* ------------------------------------------ _Resource._get, parameters
language == PyStr("en-US")
region == PyNone

\* bool values sent as they are printed
SanitizeBool_Raw(v) == PyStr(str(v))

\* `clean[k] = str(v).lower()`
SanitizeBool(v) == PyStr(lower(str(v)))

\* `items = [str(x) for x in v if x is not None]`
SanitizeItems(v) ==
    LET kept == SelectSeq(v.items, LAMBDA x : x # PyNone)
    IN  [i \in DOMAIN kept |-> str(kept[i])]

\* TMDbOneClient._sanitize_params
_sanitize_params(d) ==
    LET dropped(k) ==
            \/ d[k] = PyNone
            \/ d[k].t \in {"list", "tuple"} /\ Len(SanitizeItems(d[k])) = 0
    IN  [k \in {x \in DOMAIN d : ~dropped(x)} |->
            IF d[k].t = "bool" THEN SanitizeBool(d[k])
            ELSE IF d[k].t \in {"list", "tuple"}
                 THEN PyStr(Join(",", SanitizeItems(d[k])))
            ELSE d[k]]

\* `if not isinstance(x, list): x = [x] if x else []`
AsList(x) ==
    IF x.t = "list" THEN x.items
    ELSE IF Truthy(x) THEN <<x>> ELSE <<>>

\* the merge of 'append' into 'append_to_response' in _Resource._get
MergeAppend(kw) ==
    IF "append" \in DOMAIN kw
    THEN LET val == kw["append"]
             rest == DictPop(kw, "append")
         IN  IF "append_to_response" \in DOMAIN rest
             THEN DictSet(rest, "append_to_response",
                          PyList(AsList(rest["append_to_response"]) \o AsList(val)))
             ELSE DictSet(rest, "append_to_response", val)
    ELSE kw

\* `if self.language: params.setdefault('language', self.language)`, and
\* the same for region
SetDefaults(d) ==
    LET d1 == IF Truthy(language) /\ "language" \notin DOMAIN d
              THEN DictSet(d, "language", language) ELSE d
    IN  IF Truthy(region) /\ "region" \notin DOMAIN d1
        THEN DictSet(d1, "region", region) ELSE d1

\* the values a caller passes
Texts == {"", "a", "b"}
Scalars == {PyNone, PyBool(TRUE), PyBool(FALSE), PyInt(2)} \cup {PyStr(t) : t \in Texts}
Members == {PyNone, PyStr("a"), PyStr("b"), PyInt(2), PyBool(TRUE)}
MemberLists == UNION {[1..n -> Members] : n \in 0..MaxItems}
ParamValues ==
    Scalars \cup {PyList(xs) : xs \in MemberLists} \cup {PyTuple(xs) : xs \in MemberLists}
ParamKeys == {"append", "append_to_response"}
Dicts == UNION {[ks -> ParamValues] : ks \in SUBSET ParamKeys}

\* A call resource.method(**kw), or a call of _sanitize_params(kw), on a
\* client with one key.
InitCall ==
    /\ InitLoop(1, 0)
    /\ phase = "call"
    /\ kwargs \in Dicts
    /\ params = EmptyDict
    /\ request_params = EmptyDict
    /\ clean = EmptyDict
    /\ again = EmptyDict

\* _Resource._get up to the call of _api_request
Get ==
    /\ phase = "call"
    /\ phase' = "get"
    /\ params' = MergeAppend(kwargs)
    /\ UNCHANGED <<loopVars, kwargs, request_params, clean, again>>

\* _api_request from its entry to the request of the first iteration
ApiRequest ==
    /\ phase = "get"
    /\ phase' = "sent"
    /\ params' = SetDefaults(params)
    /\ request_params' =
          DictSet(_sanitize_params(params'), "api_key", PyStr("key"))
    /\ UNCHANGED <<loopVars, kwargs, clean, again>>

\* client._sanitize_params(kwargs)
Sanitize ==
    /\ phase = "call"
    /\ phase' = "clean"
    /\ clean' = _sanitize_params(kwargs)
    /\ UNCHANGED <<loopVars, kwargs, params, request_params, again>>

\* client._sanitize_params(clean)
SanitizeAgain ==
    /\ phase = "clean"
    /\ phase' = "again"
    /\ again' = _sanitize_params(clean)
    /\ UNCHANGED <<loopVars, kwargs, params, request_params, clean>>

NextParams == Get \/ ApiRequest \/ Sanitize \/ SanitizeAgain

SpecParams == InitCall /\ [][NextParams]_vars

Next ==
    \/ \E r \in Reqs : Start(r)
    \/ \E r \in Reqs : \E o \in Outcomes : Respond(r, o)
    \/ \E r \in Reqs : Wake429(r)
    \/ \E r \in Reqs : WakeNet(r)

Spec == Init /\ [][Next]_vars

\* Every HTTP exchange ends and every sleep ends.
Resume(r) ==
    \/ \E o \in Outcomes : Respond(r, o)
    \/ Wake429(r)
    \/ WakeNet(r)

Fairness == \A r \in Reqs : WF_vars(Resume(r))

\* The clients of up to MaxKeys keys and fewer than MaxRetries retries.
InitSmall ==
    \E n \in 0..MaxKeys : \E N \in -1..(MaxRetries - 1) : InitClient(n, N)

FairSpec == InitSmall /\ [][Next]_vars /\ Fairness

\* The client of one key and one retry, built with or without a session of
\* the caller's (open or closed, bound to any loop), and its requests,
\* close() calls, the caller's closing of its session and loop changes.
InitOwnership ==
    /\ InitKeys(1, 1)
    /\ phase = "call"
    /\ kwargs = EmptyDict
    /\ params = EmptyDict
    /\ request_params = EmptyDict
    /\ clean = EmptyDict
    /\ again = EmptyDict
    /\ \E attr \in BOOLEAN :
         \/ InitSession(None, attr)
         \/ \E l \in Loops : \E c \in {"none", "caller"} :
               InitSession(Some(Session("caller", l, c)), attr)

NextSession ==
    \/ Next
    \/ close
    \/ ExternalClose
    \/ LoopChange

SpecSession == InitOwnership /\ [][NextSession]_vars

\* ======================================================================
\* Properties
\* ======================================================================
Live == {"http", "sleep429", "sleepnet"}

\* request r sends an HTTP attempt in this step
Sent(r) == attempts'[r] = attempts[r] + 1

StatusIs(o, st) == o.kind = "response" /\ o.status = Some(st)

\* the exchange ended in a network error, a timeout or a 5xx response
IsFailure(o) ==
    \/ o.kind = "TimeoutError"
    \/ o.kind = "response" /\ ValueOf(o.status) >= 500 /\ ValueOf(o.status) <= 599
    \/ StatusIs(o, 200) /\ o.body = "read_error"

\* the exception such an exchange raises
FailureOf(o) ==
    IF o.kind = "response" /\ o.body # "read_error"
    THEN "ClientResponseError" ELSE "TimeoutError"

\* request r receives outcome o in this step
Receives(r, o) == pc[r] = "http" /\ response'[r] = o

\* a finished call stays finished and sends nothing
DoneIsFinal(r) ==
    pc[r] = "done" => pc'[r] = "done" /\ result'[r] = result[r] /\ ~Sent(r)

\* ---------------------------------------------------------------- C1
\* C1: with retries = N >= 0, a request never has more than N failures
\* (network error, timeout, 5xx) behind it while it runs; its (N+1)-th
\* failure ends it at once, raising 'Request failed after N+1 retries'
\* chained from that failure, with no further HTTP attempt; every earlier
\* failure is retried, and that error is raised at no other time.
C1_Step(r) ==
    /\ \A o \in Outcomes :
         Receives(r, o) /\ IsFailure(o) =>
            IF nfail[r] < retries
            THEN pc'[r] = "sleepnet" /\ nfail'[r] = nfail[r] + 1
            ELSE /\ nfail[r] = retries
                 /\ pc'[r] = "done"
                 /\ result'[r] = Raise(MsgFailedAfter, Some(retries + 1), None,
                                       Some(FailureOf(o)))
                 /\ ~Sent(r)
    /\ result'[r].msg = MsgFailedAfter /\ result[r].msg # MsgFailedAfter =>
         pc[r] = "http" /\ IsFailure(response'[r]) /\ nfail[r] = retries
    /\ DoneIsFinal(r)

C1_BoundedRetry ==
    /\ [](\A r \in Reqs : retries >= 0 => nfail[r] <= retries)
    /\ [][\A r \in Reqs : retries >= 0 => C1_Step(r)]_vars

\* a request has given up after a retry
C1_Witness ==
    \E r \in Reqs :
        /\ retries >= 1
        /\ pc[r] = "done"
        /\ result[r].msg = MsgFailedAfter
        /\ result[r].n = Some(retries + 1)

\* ---------------------------------------------------------------- C2
\* C2: a key that has received a 401 is not active and stays so, and every
\* key a request selects, in whichever request, is active when it is
\* selected, so it is no key that has received a 401.
C2_KeyRotation ==
    /\ [](revoked \cap active_api_keys = {})
    /\ [][/\ revoked \subseteq revoked'
          /\ active_api_keys' \subseteq active_api_keys
          /\ \A r \in Reqs : \A o \in Outcomes :
                Receives(r, o) /\ StatusIs(o, 401) =>
                    ValueOf(current_api_key[r]) \in revoked'
          /\ \A r \in Reqs :
                Sent(r) => /\ current_api_key'[r] # None
                           /\ ValueOf(current_api_key'[r]) \in active_api_keys'
                           /\ ValueOf(current_api_key'[r]) \notin revoked']_vars

\* a key has been dropped while another request was using it, and both
\* requests have selected a key again
C2_Witness ==
    /\ revoked # {}
    /\ \A r \in Reqs : pc[r] = "http" /\ attempts[r] >= 2

\* ---------------------------------------------------------------- C3
\* Retry-After when it parses as a number, otherwise default_cooldown
ExpectedCooldown(h) ==
    IF h = None THEN default_cooldown
    ELSE IF float(ValueOf(h)) = None THEN default_cooldown
    ELSE ValueOf(float(ValueOf(h)))

\* the call raises the key-exhaustion error in this step, sending nothing
RaisesExhausted(r) ==
    /\ pc'[r] = "done"
    /\ result'[r] = Raise(MsgExhausted, None, None, None)
    /\ ~Sent(r)

\* what a 429 response does: one sleep for each of the first 5, an error
\* without sleep or attempt for the 6th
C3_On429(r) ==
    \A o \in Outcomes :
        Receives(r, o) /\ StatusIs(o, 429) =>
            IF n429[r] < 5
            THEN /\ pc'[r] = "sleep429"
                 /\ sleep_arg'[r] = Some(ExpectedCooldown(o.retry_after))
                 /\ nsleep'[r] = nsleep[r] + 1
                 /\ n429'[r] = n429[r] + 1
                 /\ ~Sent(r)
            ELSE /\ n429[r] = 5
                 /\ pc'[r] = "done"
                 /\ result'[r] = Raise(MsgRateLimit, None, Some(429), None)
                 /\ ~Sent(r)

\* C3 as stated: within one request each of the first 5 responses 429 is
\* followed by exactly one sleep (Retry-After when it parses as a number,
\* otherwise default_cooldown) and then by a further attempt; the 6th
\* raises 'Max rate limit retries exceeded.' without sleep or attempt.
C3_Original ==
    [][\A r \in Reqs :
          /\ C3_On429(r)
          /\ pc[r] = "sleep429" /\ pc'[r] # "sleep429" =>
                pc'[r] = "http" /\ Sent(r) /\ nsleep'[r] = nsleep[r]]_vars

\* C3 amended: the sleep is followed by a further attempt unless no key is
\* active when the sleep ends; the request then raises the key-exhaustion
\* error without an attempt.
C3_RateLimitBackoff ==
    [][\A r \in Reqs :
          /\ C3_On429(r)
          /\ pc[r] = "sleep429" /\ pc'[r] # "sleep429" =>
                IF active_api_keys # {}
                THEN pc'[r] = "http" /\ Sent(r) /\ nsleep'[r] = nsleep[r]
                ELSE RaisesExhausted(r)]_vars

\* a request has received its 6th 429
C3_Witness ==
    \E r \in Reqs :
        /\ pc[r] = "done"
        /\ StatusIs(response[r], 429)
        /\ result[r].msg = MsgRateLimit

\* ---------------------------------------------------------------- C9
\* what a failure (network error, timeout, 5xx) does: the k-th, k <= retries,
\* starts one sleep of retry_delay * k; the (retries+1)-th ends the request
\* without sleep
C9_OnFailure(r) ==
    \A o \in Outcomes :
        Receives(r, o) /\ IsFailure(o) =>
            IF nfail[r] + 1 <= retries
            THEN /\ pc'[r] = "sleepnet"
                 /\ sleep_arg'[r] = Some(retry_delay * (nfail[r] + 1))
                 /\ nsleep'[r] = nsleep[r] + 1
                 /\ nfail'[r] = nfail[r] + 1
                 /\ ~Sent(r)
            ELSE /\ pc'[r] = "done"
                 /\ result'[r].kind = "raise"
                 /\ ~Sent(r)

\* C9 as stated: the k-th failure (1 <= k <= retries) is followed by exactly
\* one sleep of retry_delay * k and then by the next attempt; the
\* (retries+1)-th by no sleep before the request raises.
C9_Original ==
    [][\A r \in Reqs : retries >= 0 =>
          /\ C9_OnFailure(r)
          /\ pc[r] = "sleepnet" /\ pc'[r] # "sleepnet" =>
                pc'[r] = "http" /\ Sent(r) /\ nsleep'[r] = nsleep[r]]_vars

\* C9 amended: the sleep is followed by the next attempt unless no key is
\* active when the sleep ends; the request then raises the key-exhaustion
\* error without an attempt.
C9_NetworkBackoff ==
    [][\A r \in Reqs : retries >= 0 =>
          /\ C9_OnFailure(r)
          /\ pc[r] = "sleepnet" /\ pc'[r] # "sleepnet" =>
                IF active_api_keys # {}
                THEN pc'[r] = "http" /\ Sent(r) /\ nsleep'[r] = nsleep[r]
                ELSE RaisesExhausted(r)]_vars

\* a request sleeps after its second failure
C9_Witness ==
    \E r \in Reqs :
        /\ pc[r] = "sleepnet"
        /\ nfail[r] = 2
        /\ sleep_arg[r] = Some(retry_delay * 2)

\* ---------------------------------------------------------------- C6
\* a response that is neither 401, nor 429, nor 5xx
IsPlain(o) ==
    /\ o.kind = "response"
    /\ ValueOf(o.status) \notin {401, 429}
    /\ ~(ValueOf(o.status) >= 500 /\ ValueOf(o.status) <= 599)

EndsQuietly(r) ==
    /\ pc'[r] = "done"
    /\ ~Sent(r)
    /\ active_api_keys' = active_api_keys

\* C6 as stated: such a response ends the request on that attempt, with no
\* further attempt, no sleep and no key removed; 200 returns the parsed
\* body, 404 returns None, any other status raises with that status.
C6_Original ==
    [][\A r \in Reqs : \A o \in Outcomes :
          Receives(r, o) /\ IsPlain(o) =>
              /\ EndsQuietly(r)
              /\ result'[r] =
                    IF o.status = Some(200) THEN Return(Some(o.body))
                    ELSE IF o.status = Some(404) THEN Return(None)
                    ELSE Raise(MsgApiError, None, o.status, None)]_vars

\* C6 amended: a status-200 response whose body read fails with a network
\* error or timeout is handled as a network failure; otherwise the response
\* ends the request as stated, where 200 returns the parsed body when the
\* body is JSON and raises TMDbAPIError with status_code 200 when it is not.
C6_PlainResponse ==
    [][\A r \in Reqs : \A o \in Outcomes :
          Receives(r, o) /\ IsPlain(o) /\ o.body # "read_error" =>
              /\ EndsQuietly(r)
              /\ result'[r] =
                    IF o.status = Some(200)
                    THEN IF o.body \in JsonBodies THEN Return(Some(o.body))
                         ELSE Raise(MsgNonJson, None, Some(200), None)
                    ELSE IF o.status = Some(404) THEN Return(None)
                    ELSE Raise(MsgApiError, None, o.status, None)]_vars

\* requests have ended on a 200 with a JSON body, and on a 404
C6_Witness ==
    \E r, q \in Reqs :
        /\ pc[r] = "done" /\ StatusIs(response[r], 200)
        /\ result[r] = Return(Some("json_b"))
        /\ pc[q] = "done" /\ StatusIs(response[q], 404)
        /\ result[q] = Return(None)

\* ---------------------------------------------------------------- C10
AllRevoked == ctor = "ok" /\ Range(api_keys) \subseteq revoked

\* C10: no client is built from an empty key list (ValueError, and no
\* request runs); once every key has received a 401 no key is active again,
\* no HTTP attempt is sent, and the request that received the last 401 and
\* every request that starts or wakes from a sleep afterwards raises the
\* key-exhaustion error.
C10_Exhaustion ==
    /\ []((ctor = "ValueError") <=> (Len(api_keys) = 0))
    /\ [](ctor = "ValueError" => \A r \in Reqs : pc[r] = "idle")
    /\ [](AllRevoked => active_api_keys = {})
    /\ [][(AllRevoked => AllRevoked')
          /\ \A r \in Reqs :
               /\ AllRevoked' => ~Sent(r)
               /\ AllRevoked' /\ pc[r] = "http" /\ StatusIs(response'[r], 401) =>
                     RaisesExhausted(r)
               /\ AllRevoked /\ pc[r] \in {"idle", "sleep429", "sleepnet"}
                    /\ pc'[r] # pc[r] => RaisesExhausted(r)]_vars

\* the last key has been dropped by one request, and a request that was
\* asleep then has raised the key-exhaustion error too
C10_Witness ==
    \E r, q \in Reqs :
        /\ AllRevoked
        /\ pc[r] = "done" /\ StatusIs(response[r], 401)
        /\ result[r].msg = MsgExhausted
        /\ pc[q] = "done" /\ response[q] = NoResponse
        /\ result[q].msg = MsgExhausted
        /\ Len(api_keys) >= 2

\* ---------------------------------------------------------------- C4
\* C4: while the active key set is unchanged and has K members, any K
\* consecutive key selections of the client use K different keys (each
\* active key once): no key occurs twice among the last K selections made
\* since the set last changed.
C4_RoundRobin ==
    \A i, j \in DOMAIN recent : i # j => recent[i] # recent[j]

\* ---------------------------------------------------------------- C5
AttemptBound == Len(api_keys) + 5 + retries

\* C5: with K distinct keys and retries = N >= 0 a call never sends more
\* than K + 5 + N HTTP attempts, and, every exchange and every sleep
\* ending, it returns or raises.
C5_BoundedLoop ==
    /\ [](\A r \in Reqs : retries >= 0 => attempts[r] <= AttemptBound)
    /\ \A r \in Reqs : (pc[r] \in Live) ~> (pc[r] = "done")

\* a call is at its (K + 5 + N)-th attempt, with two keys and one retry
C5_Witness ==
    \E r \in Reqs :
        /\ Len(api_keys) = 2 /\ retries = 1
        /\ pc[r] = "http"
        /\ attempts[r] = AttemptBound

\* ---------------------------------------------------------------- C7
NonNoneItems(v) == SelectSeq(v.items, LAMBDA x : x # PyNone)

\* what the claim says of the value v of key k in the result d
Sanitized(d, k, v) ==
    CASE v = PyNone -> k \notin DOMAIN d
      [] v = PyBool(TRUE) -> k \in DOMAIN d /\ d[k] = PyStr("true")
      [] v = PyBool(FALSE) -> k \in DOMAIN d /\ d[k] = PyStr("false")
      [] v.t \in {"list", "tuple"} ->
            IF Len(NonNoneItems(v)) = 0 THEN k \notin DOMAIN d
            ELSE /\ k \in DOMAIN d
                 /\ d[k] = PyStr(Join(",", [i \in DOMAIN NonNoneItems(v) |->
                                               str(NonNoneItems(v)[i])]))
      [] OTHER -> k \in DOMAIN d /\ d[k] = v

\* C7: the result of _sanitize_params has no None value, has 'true' or
\* 'false' for every bool, the comma-joined strings of the non-None items
\* for every list or tuple (no key when no item remains) and every other
\* value unchanged; the input is not modified; sanitizing the result again
\* returns it unchanged.
C7_Sanitize ==
    /\ [](phase \in {"clean", "again"} =>
            /\ DOMAIN clean \subseteq DOMAIN kwargs
            /\ \A k \in DOMAIN clean : clean[k] # PyNone
            /\ \A k \in DOMAIN kwargs : Sanitized(clean, k, kwargs[k]))
    /\ [](phase = "again" => again = clean)
    /\ [][kwargs' = kwargs]_vars

\* a dict with a bool and a list holding a None has been sanitized twice
C7_Witness ==
    /\ phase = "again"
    /\ "append" \in DOMAIN kwargs /\ kwargs["append"] = PyBool(TRUE)
    /\ "append_to_response" \in DOMAIN kwargs
    /\ kwargs["append_to_response"] = PyList(<<PyNone, PyStr("b")>>)
    /\ again = [k \in {"append", "append_to_response"} |->
                  IF k = "append" THEN PyStr("true") ELSE PyStr("b")]

\* ---------------------------------------------------------------- C8
\* a single string, or a list or tuple of strings
GivenItems(v) ==
    \/ v.t = "str" /\ v.s # ""
    \/ /\ v.t \in {"list", "tuple"}
       /\ Len(v.items) > 0
       /\ \A i \in DOMAIN v.items : v.items[i].t = "str" /\ v.items[i].s # ""

ItemsOf(v) == IF v.t \in {"list", "tuple"} THEN v.items ELSE <<v>>

\* C8: a GET called with 'append' sends no 'append' parameter, and sends as
\* 'append_to_response' the comma-joined items of the caller's
\* append_to_response (if given) followed by the items of 'append', each of
\* the two being a single string, a list or a tuple.
C8_AppendMerged ==
    phase = "sent" /\ "append" \in DOMAIN kwargs /\ GivenItems(kwargs["append"])
        /\ ("append_to_response" \in DOMAIN kwargs
               => GivenItems(kwargs["append_to_response"]))
    => LET first == IF "append_to_response" \in DOMAIN kwargs
                    THEN ItemsOf(kwargs["append_to_response"]) ELSE <<>>
           all == first \o ItemsOf(kwargs["append"])
       IN  /\ "append" \notin DOMAIN request_params
           /\ "append_to_response" \in DOMAIN request_params
           /\ request_params["append_to_response"] =
                 PyStr(Join(",", [i \in DOMAIN all |-> all[i].s]))

\* --------------------------------------------------------------- C11
\* request r takes a step
Moves(r) == pc'[r] # pc[r] \/ Sent(r)

\* request r receives a 401 in this step: it goes on to its next attempt
\* without a sleep, or ends with the 401 as its last response
Got401(r) ==
    /\ pc[r] = "http"
    /\ \/ pc'[r] = "http" /\ Sent(r)
       \/ StatusIs(response'[r], 401)

Got429(r) == pc[r] = "http" /\ StatusIs(response'[r], 429)

GotFailure(r) == pc[r] = "http" /\ IsFailure(response'[r])

SameCounters(r) ==
    /\ network_attempts'[r] = network_attempts[r]
    /\ rate_limit_attempts'[r] = rate_limit_attempts[r]

SameKeys == active_api_keys' = active_api_keys

C11_Step(r) ==
    \* 401: the key set loses the key, the counters stay
    /\ Got401(r) =>
         /\ active_api_keys' = active_api_keys \ {ValueOf(current_api_key[r])}
         /\ pc'[r] # "done" => SameCounters(r)
    \* 429: nothing but the rate-limit counter, which grows by one when
    \* the sleep ends
    /\ Got429(r) =>
         /\ SameKeys /\ api_key_rotator' = api_key_rotator
         /\ pc'[r] # "done" => pc'[r] = "sleep429" /\ SameCounters(r)
    /\ pc[r] = "sleep429" /\ Moves(r) =>
         /\ SameKeys
         /\ pc'[r] # "done" =>
              /\ rate_limit_attempts'[r] = rate_limit_attempts[r] + 1
              /\ network_attempts'[r] = network_attempts[r]
    \* network error, timeout, 5xx: nothing but the network counter
    /\ GotFailure(r) =>
         /\ SameKeys /\ api_key_rotator' = api_key_rotator
         /\ IF pc'[r] # "done"
            THEN /\ pc'[r] = "sleepnet"
                 /\ network_attempts'[r] = network_attempts[r] + 1
                 /\ rate_limit_attempts'[r] = rate_limit_attempts[r]
            ELSE result'[r].n = Some(network_attempts[r] + 1)
    /\ pc[r] = "sleepnet" /\ Moves(r) =>
         SameKeys /\ (pc'[r] # "done" => SameCounters(r))
    \* no reset while the request runs
    /\ pc[r] \in Live /\ pc'[r] \in Live =>
         /\ network_attempts'[r] >= network_attempts[r]
         /\ rate_limit_attempts'[r] >= rate_limit_attempts[r]
    \* the step of r leaves the counters of the other requests alone
    /\ Moves(r) => \A q \in Reqs \ {r} : SameCounters(q)

\* C11: a 401 changes the key set and the rotator and leaves the request's
\* network and rate-limit counters as they are; a 429 changes only the
\* rate-limit counter (by one, at the end of its sleep) and leaves the
\* network counter and the key set; a network error, timeout or 5xx
\* changes only the network counter and leaves the rate-limit counter and
\* the key set; no counter of a running request decreases, and no step of
\* one request changes a counter of another.
C11_IndependentBudgets == [][\A r \in Reqs : C11_Step(r)]_vars

\* a request has a failure and a 429 behind it and goes on after a 401,
\* next to a running request whose counters are untouched
C11_Witness ==
    \E r, q \in Reqs :
        /\ r # q
        /\ pc[r] = "http"
        /\ network_attempts[r] >= 1 /\ rate_limit_attempts[r] >= 1
        /\ revoked # {}
        /\ pc[q] \in Live
        /\ network_attempts[q] = 0 /\ rate_limit_attempts[q] = 0

\* --------------------------------------------------------------- C12
\* the sessions that exist: the one self.session refers to and the ones it
\* referred to before
AllSessions ==
    dropped_sessions \cup (IF session = None THEN {} ELSE {ValueOf(session)})

\* C12: no session supplied by the caller is ever closed by close(), and
\* when close() has returned no session made by _get_session is open.
C12_SessionOwnership ==
    /\ \A x \in AllSessions : x.owner = "caller" => x.closer # "client"
    /\ close_returned => \A x \in AllSessions : x.owner = "client" => x.closer # "none"

====
